---------------------------- MODULE Spec2Model ----------------------------
(***************************************************************************)
(* Model of the OneBox mail synchronisation pipeline:                      *)
(*   ImapService (startSync, connectAndSyncAccount, initialSync,           *)
(*   setupRealTimeIdle, processAndIndexEmail), AIService.categorizeEmail,  *)
(*   ElasticsearchService.indexDocument and                                *)
(*   AutomationService.triggerInterestedAutomation.                        *)
(*                                                                         *)
(* Node.js runs one callback at a time, so every action below is the code  *)
(* that runs from the completion of one awaited operation up to the next   *)
(* await.  The outcome of every awaited external operation (IMAP server,   *)
(* mail parser, OpenAI, Elasticsearch, Slack, webhook) is chosen by the    *)
(* environment.                                                            *)
(***************************************************************************)
EXTENDS Integers, Sequences, FiniteSets, TLC

(***************************************************************************)
(* Bounds of the model.                                                    *)
(***************************************************************************)
MaxUid      == 2   \* UIDs a mailbox may hold (1..MaxUid)
MaxHandlers == 1   \* 'exists' callbacks in flight at once in Spec
MaxLive     == 2   \* 'exists' callbacks in flight at once in SpecLive
MaxClock    == 2   \* values the wall clock may show (1..MaxClock)

(***************************************************************************)
(* Program constants.                                                      *)
(***************************************************************************)
ACCOUNT_CONFIGS == << "gmail-account-1", "placeholder-account-2" >>

Accounts == { ACCOUNT_CONFIGS[i] : i \in 1..Len(ACCOUNT_CONFIGS) }

VALID_CATEGORIES ==
    { "Interested", "Meeting Booked", "Not Interested", "Spam",
      "Out of Office", "Uncategorized" }

INBOX == "INBOX"

(***************************************************************************)
(* Tasks: the startSync call chain and the live 'exists' callbacks.        *)
(***************************************************************************)
Main     == 0
Handlers == 1..(IF MaxLive > MaxHandlers THEN MaxLive ELSE MaxHandlers)
Tasks    == {Main} \cup Handlers
NoTask   == -1

UIDs == 1..MaxUid

(***************************************************************************)
(* Raw messages.  What a fetched message looks like is a property of the   *)
(* message on the server, so fetching the same UID twice yields the same   *)
(* raw message:                                                            *)
(*   "dated"      source present, parses, has a Date header                *)
(*   "unparsable" source present, simpleParser rejects it                  *)
(*   "nodate"     source present, parses, no (valid) Date header           *)
(*   "absent"     the fetched object carries no source                     *)
(***************************************************************************)
MsgKinds == << "dated", "unparsable", "absent", "nodate" >>

AccountIndex(a) == CHOOSE i \in 1..Len(ACCOUNT_CONFIGS) : ACCOUNT_CONFIGS[i] = a

\* The first account's mailbox holds the kinds in the order of MsgKinds,
\* the second account's in the reverse order, both cyclically.
MsgKind(a, u) ==
    LET n == Len(MsgKinds)
        k == ((u - 1) % n) + 1
    IN MsgKinds[IF AccountIndex(a) = 1 THEN k ELSE n + 1 - k]

\* parsed.subject of a message: the messages with a Date header are
\* automatic absence replies, the others are ordinary replies.
MsgSubject(a, u) ==
    IF MsgKind(a, u) = "dated" THEN "Out of Office" ELSE "Re: proposal"

\* Date header value carried by the "dated" messages; the clock starts later.
MsgDate == 0

\* 'date30DaysAgo.getDate() - 30': the length of the backfill window, in
\* days.  The clock and every date of the model count days.
WindowDays == 30

\* Day on which a message was received (its IMAP internal date): the
\* messages the mailbox held long before the start carry OldDate, which lies
\* before the window of every clock value; all others carry RecentDate.
OldDate    == 0 - WindowDays
RecentDate == 0

VARIABLES
    env,         \* process.env: which settings are present
    mailTo,      \* per account and UID: parsed.to of the message
    apiReply,    \* GET /api/emails: the last request and its JSON answer
    server,      \* the app.listen callback: esService.connect(), startSync
    now,         \* wall clock read by new Date()
    mcount,      \* per account: the server mailbox holds UIDs 1..mcount
    old,         \* per account: UIDs 1..old were received before the window
    clients,     \* ImapService.clients: account ids that have an entry
    registered,  \* per account: 'exists' listener installed on the client
    lock,        \* per account: holder of the mailbox lock
    task,        \* per task: control state and locals
    cfgIdx,      \* startSync: index of the config being handled
    store,       \* Elasticsearch index 'emails': document key -> document
    acctLog      \* per account: what has happened to its sync so far

vars == << env, mailTo, apiReply, server, now, mcount, old, clients, registered, lock, task, cfgIdx,
           store, acctLog >>


(***************************************************************************)
(* Pure functions of the source.                                           *)
(***************************************************************************)

\* `${accountId}-${msg.uid}`: the account id, a dash, the UID in decimal.
DocId(accountId, uid) == accountId \o "-" \o ToString(uid)

\* What the awaited openai.chat.completions.create call can produce:
\* a rejection, or a completion whose message content is
\*   "empty"      null or the empty string,
\*   "malformed"  text that JSON.parse rejects,
\*   "null"       the JSON value null,
\*   "object"     a JSON object, whose 'category' member is .category
\*                (NoCategory when the member is missing).
NoCategory == "<undefined>"

InvalidLabels == { "interested", "Lead", NoCategory }

RepliesWith(labels) ==
    { [kind |-> k, category |-> NoCategory] :
          k \in { "reject", "empty", "malformed", "null" } }
    \cup { [kind |-> "object", category |-> c] : c \in labels }

\* Every reply: each of the six labels and the invalid ones.
OracleReplies == RepliesWith(VALID_CATEGORIES \cup InvalidLabels)

\* The replies used where the whole system is explored: the label that
\* triggers automation, one that does not, the fallback label itself and
\* the invalid ones.
SampleReplies ==
    RepliesWith({ "Interested", "Spam", "Uncategorized" } \cup InvalidLabels)

\* README "AI Categorization Logic", rule-based fast checks: the label a
\* rule gives to a subject, NoCategory when no rule matches.  AIService
\* holds no such check: categorizeEmail never consults it.
ruleBasedLabel(subject) ==
    IF subject \in { "Out of Office", "Spam", "Meeting Booked" } THEN subject
    ELSE NoCategory

\* Faulty variant: the category of the reply is returned without the
\* VALID_CATEGORIES test.
categorizeEmailUnvalidated(reply) ==
    IF reply.kind = "object" THEN reply.category ELSE "Uncategorized"

\* Faulty variant: a failed or empty reply yields no category at all.
categorizeEmailNoDefault(reply) ==
    IF reply.kind = "object" /\ reply.category \in VALID_CATEGORIES
    THEN reply.category
    ELSE NoCategory

\* AIService.categorizeEmail from the completion of the API call on.
categorizeEmailResult(reply) ==
    CASE reply.kind = "reject"    -> "Uncategorized"   \* catch
      [] reply.kind = "empty"     -> "Uncategorized"   \* !rawJson
      [] reply.kind = "malformed" -> "Uncategorized"   \* JSON.parse throws
      [] reply.kind = "null"      -> "Uncategorized"   \* result.category throws
      [] OTHER ->
           IF reply.category # NoCategory /\ reply.category \in VALID_CATEGORIES
           THEN reply.category
           ELSE "Uncategorized"

\* Faulty variant: every label but the fallback triggers the automation.
shouldAutomateAnyLabel(aiCategory) == aiCategory # "Uncategorized"

\* if (aiCategory === 'Interested')
shouldAutomate(aiCategory) == aiCategory = "Interested"

(***************************************************************************)
(* parsed.to as simpleParser delivers it: absent, one AddressObject or an  *)
(* array of them.  An AddressObject may lack its value list; an entry of   *)
(* the list carries an address, or none (written "") when it stands for a  *)
(* named group.                                                            *)
(***************************************************************************)
MaxGroups == 2

UNKNOWN_ADDRESS == "unknown@example.com"

NoAddressObject == [ hasValue |-> FALSE, value |-> << >> ]

AddressObjects ==
    { NoAddressObject }
    \cup { [ hasValue |-> TRUE, value |-> v ] :
             v \in { << >>,
                     << [address |-> ""] >>,
                     << [address |-> "a@x.io"] >>,
                     << [address |-> "a@x.io"], [address |-> "b@y.io"] >>,
                     << [address |-> ""], [address |-> "b@y.io"] >> } }

ParsedTo ==
    { [ kind |-> "absent", object |-> NoAddressObject, items |-> << >> ] }
    \cup { [ kind |-> "object", object |-> o, items |-> << >> ] :
             o \in AddressObjects }
    \cup { [ kind |-> "array", object |-> NoAddressObject, items |-> i ] :
             i \in UNION { [1..n -> AddressObjects] : n \in 0..MaxGroups } }

\* Array.isArray(parsed.to) ? parsed.to : [parsed.to]
recipientsOf(to) == IF to.kind = "array" THEN to.items ELSE << to.object >>

\* recipient.value?.map(a => a.address) ?? []
addressesOf(recipient) ==
    IF recipient.hasValue
    THEN [ i \in 1..Len(recipient.value) |-> recipient.value[i].address ]
    ELSE << >>

\* recipients.flatMap(...)
RECURSIVE flatMapAddresses(_)
flatMapAddresses(recipients) ==
    IF recipients = << >> THEN << >>
    ELSE addressesOf(Head(recipients)) \o flatMapAddresses(Tail(recipients))

\* Boolean(address)
Truthy(address) == address # ""

\* addresses.join(', ')
RECURSIVE joinComma(_)
joinComma(addresses) ==
    IF addresses = << >> THEN ""
    ELSE IF Len(addresses) = 1 THEN Head(addresses)
    ELSE Head(addresses) \o ", " \o joinComma(Tail(addresses))

\* Faulty variant: the joined string is returned as it is.
toListNoFallback(to) ==
    IF to.kind = "absent" THEN UNKNOWN_ADDRESS
    ELSE joinComma(SelectSeq(flatMapAddresses(recipientsOf(to)), Truthy))

\* The toList expression of processAndIndexEmail.
toList(to) ==
    IF to.kind = "absent" THEN UNKNOWN_ADDRESS
    ELSE LET joined ==
               joinComma(SelectSeq(flatMapAddresses(recipientsOf(to)), Truthy))
         IN IF joined = "" THEN UNKNOWN_ADDRESS ELSE joined

\* The EmailDocument literal built in processAndIndexEmail.
emailDocument(accountId, uid, folder, kind, aiCategory, clock, parsedTo) ==
    [ id          |-> DocId(accountId, uid),
      account_id  |-> accountId,
      folder      |-> folder,
      to          |-> toList(parsedTo),
      date        |-> IF kind = "dated" THEN MsgDate ELSE clock,
      ai_category |-> aiCategory ]

\* Faulty variant: the id is not passed, so Elasticsearch stores the
\* document under an id of its own making.
esIndexAutoId(st, doc) ==
    LET k0 == "auto-" \o ToString(Cardinality(DOMAIN st)) IN
    [ k \in (DOMAIN st) \cup {k0} |-> IF k = k0 THEN doc ELSE st[k] ]

\* Faulty variant: the index is recreated with the document alone.
esIndexRecreate(st, doc) == [ k \in {doc.id} |-> doc ]

\* client.index({index, id: email.id, document: email}) on success:
\* the document stored under that id is created or replaced.
esIndex(st, doc) ==
    [ k \in (DOMAIN st) \cup {doc.id} |-> IF k = doc.id THEN doc ELSE st[k] ]

\* ElasticsearchService.indexDocument: what its caller sees.  The catch
\* block logs and returns, so the promise resolves in both cases.
indexDocumentOutcome(esOk) == "returned"

\* Faulty variant: the catch block rethrows.
processCatchRethrow == "raised"

\* The catch block of processAndIndexEmail logs and returns.
processCatch == "returned"

\* Faulty variant: a failed post rejects the channel's promise.
channelCatchRethrow == "raised"

\* The catch blocks of sendSlackNotification / triggerExternalWebhook.
channelCatch == "returned"

\* Faulty variant: the catch block rethrows.
accountCatchRethrow == "raised"

\* connectAndSyncAccount: the catch around connect / initialSync.
accountCatch == "returned"

\* Faulty variant: the window is one day too long.
sinceDateOffByOne(clock) == clock - WindowDays - 1

\* initialSync: new Date(), setDate(getDate() - 30), the date part of
\* toISOString(): the day 30 days before the clock's.
sinceDate(clock) == clock - WindowDays

RECURSIVE Reverse(_)
Reverse(q) == IF q = << >> THEN << >> ELSE Append(Reverse(Tail(q)), Head(q))

\* Faulty variant: the search result is walked from its end.
backfillReversed(uids) == Reverse(uids)

\* 'for (const uid of uids)': the order in which initialSync takes the UIDs.
backfillOrder(uids) == uids

\* Faulty variant: the callback takes the first UID of the search result.
firstUidIndex(uids) == 1

\* 'uids[uids.length - 1]': the position of the UID an 'exists' callback
\* fetches.
latestUidIndex(uids) == Len(uids)

\* Faulty variant: lock.release() stands at the end of the try block.
releaseOnSuccessOnly(threw) == ~threw

\* 'finally { lock.release(); }': is the lock released when the locked
\* region is left normally (threw = FALSE) or by an exception (TRUE)?
finallyReleases(threw) == TRUE

\* Faulty variant: a failed account is tried again.
retryOnFailure(i, ok) == IF ok THEN i + 1 ELSE i

\* startSync's 'for (const config of ACCOUNT_CONFIGS)': the config taken
\* after connectAndSyncAccount(config i) has returned, whether the account
\* was synchronised (ok) or its catch block ran.
nextConfigIndex(i, ok) == i + 1

\* Faulty variant: startSync is called whatever connect() returned.
syncUngated(esConnected) == TRUE

\* The app.listen callback: 'if (esConnected) await imapService.startSync()'.
syncGate(esConnected) == esConnected

\* startSync: is this config synchronised?
configEligible(i, e) ==
    ACCOUNT_CONFIGS[i] # "placeholder-account-2" \/ e.creds2

RECURSIVE NextCfg(_, _)
\* first index >= i of a config startSync will connect, Len+1 if none
NextCfg(i, e) ==
    IF i > Len(ACCOUNT_CONFIGS) THEN i
    ELSE IF configEligible(i, e) THEN i
    ELSE NextCfg(i + 1, e)

(***************************************************************************)
(* Task state.                                                             *)
(*   pc    where the task is suspended                                     *)
(*   acct  the account the task works for                                  *)
(*   since sinceDate of the running initialSync                            *)
(*   uids  the search result, i the position of the UID being handled      *)
(*   cat   aiCategory of the running processAndIndexEmail call             *)
(*   doc   emailDocument of the running call (NoDoc before it is built)    *)
(*   att   record of the running / last processAndIndexEmail call          *)
(***************************************************************************)
NoAcct == "none"
NoDoc  == [ id |-> "", account_id |-> NoAcct, folder |-> "", to |-> "",
            date |-> 0, ai_category |-> NoCategory ]

NoAttempt ==
    [ uid |-> 0, kind |-> "none", stage |-> "none", oracleCalls |-> 0,
      fallback |-> FALSE, esCalls |-> 0, esFailed |-> FALSE,
      notified |-> 0, slack |-> 0, webhook |-> 0, slackFailed |-> FALSE,
      webhookFailed |-> FALSE, outcome |-> "none" ]

IdleTask ==
    [ pc |-> "idle", acct |-> NoAcct, since |-> 0, uids |-> << >>, i |-> 0,
      cat |-> NoCategory, doc |-> NoDoc, att |-> NoAttempt ]

\* No GET /api/emails request has been answered.
NoReply ==
    [ accountId |-> "", folder |-> "", page |-> 0, pageSize |-> 0,
      failed |-> FALSE, emails |-> << >>, total |-> 0 ]

\* The app.listen callback before esService.connect() has settled.
NewServer == [ esConnected |-> "pending", startSyncCalls |-> 0 ]

NewAcctLog ==
    [ attempted |-> FALSE, connectFailed |-> FALSE, imapFailure |-> FALSE,
      backfillDone |-> FALSE, connects |-> 0, errored |-> FALSE,
      missed |-> FALSE, caught |-> FALSE ]

Env == [ apiKey : BOOLEAN, slackUrl : BOOLEAN, webhookUrl : BOOLEAN,
         creds2 : BOOLEAN ]

\* The state after construction, for the settings in 'envs'; each mailbox
\* holds at most 'maxOld' messages from before the window.
\* Every message is addressed to one recipient.
PlainTo ==
    [ kind |-> "object", items |-> << >>,
      object |-> [ hasValue |-> TRUE, value |-> << [address |-> "a@x.io"] >> ] ]

InitMail(envs, maxOld, tos) ==
    /\ env \in envs
    /\ mailTo \in { [a \in Accounts |-> [u \in UIDs |-> to]] : to \in tos }
    /\ server = NewServer
    /\ apiReply = NoReply
    /\ now = 1
    /\ mcount \in [Accounts -> 0..MaxUid]
    /\ old \in { o \in [Accounts -> 0..maxOld] :
                    \A a \in Accounts : o[a] <= mcount[a] }
    /\ clients = {}
    /\ registered = [a \in Accounts |-> FALSE]
    /\ lock = [a \in Accounts |-> NoTask]
    /\ task = [t \in Tasks |-> IdleTask]
    /\ cfgIdx = 0
    /\ store = [k \in {} |-> NoDoc]
    /\ acctLog = [a \in Accounts |-> NewAcctLog]

InitWith(envs, maxOld) == InitMail(envs, maxOld, { PlainTo })

\* Every setting of process.env.
InitAll == InitWith(Env, MaxUid)

\* OPENAI_API_KEY and both webhook URLs are set; the credentials of the
\* second account may be missing.
Init == InitWith({ e \in Env : e.apiKey /\ e.slackUrl /\ e.webhookUrl }, 0)

(***************************************************************************)
(* Control flow shared by the actions.  Each operator below assigns        *)
(* task, lock, registered, clients, cfgIdx and acctLog.                    *)
(***************************************************************************)

\* The task stays inside its current function; only its own state changes.
Stay(t, tk) ==
    /\ task' = [task EXCEPT ![t] = tk]
    /\ UNCHANGED << lock, registered, clients, cfgIdx, acctLog >>

\* startSync's for loop from config j on: connectAndSyncAccount(config j)
\* up to 'await client.connect()', or the end of startSync.
EnterCfgWith(tasks, j, log) ==
    /\ cfgIdx' = j
    /\ IF j <= Len(ACCOUNT_CONFIGS)
       THEN /\ clients' = clients \cup { ACCOUNT_CONFIGS[j] }
            /\ task' = [tasks EXCEPT ![Main] =
                          [IdleTask EXCEPT !.pc = "connect",
                                           !.acct = ACCOUNT_CONFIGS[j]]]
            /\ acctLog' = [log EXCEPT ![ACCOUNT_CONFIGS[j]].attempted = TRUE,
                                      ![ACCOUNT_CONFIGS[j]].connects = @ + 1]
       ELSE /\ clients' = clients
            /\ task' = [tasks EXCEPT ![Main] =
                          [IdleTask EXCEPT !.pc = "done"]]
            /\ acctLog' = log

EnterCfg(j, log) == EnterCfgWith(task, j, log)

\* Faulty variant: a notification emitted before the listener was installed
\* is delivered to it once it is installed.
replayAtSetup(tasks, a, missed) ==
    IF missed /\ tasks[1].pc = "idle"
    THEN [tasks EXCEPT ![1] = [IdleTask EXCEPT !.pc = "lock", !.acct = a]]
    ELSE tasks

\* setupRealTimeIdle: client.on('exists', ...) only installs the listener;
\* the emitter keeps no backlog, so no callback is started for what was
\* emitted before.
handlersAtSetup(tasks, a, missed) == tasks

\* Faulty variant: the listeners are installed whether or not the backfill
\* returned.
setupAlways(ok) == TRUE

\* connectAndSyncAccount: setupRealTimeIdle is the statement after 'await
\* this.initialSync' inside the try block, so it runs only when the
\* backfill returned.
setupAfterBackfill(ok) == ok

\* connectAndSyncAccount ends for the Main task's account: ok = initialSync
\* returned (setupRealTimeIdle runs), otherwise the catch block ran.
AccountEnd(tk, ok, release, log) ==
    /\ lock' = IF release THEN [lock EXCEPT ![tk.acct] = NoTask] ELSE lock
    /\ registered' = IF setupAfterBackfill(ok)
                     THEN [registered EXCEPT ![tk.acct] = TRUE]
                     ELSE registered
    /\ IF ok \/ accountCatch = "returned"
       THEN EnterCfgWith(IF setupAfterBackfill(ok)
                         THEN handlersAtSetup(task, tk.acct,
                                              log[tk.acct].missed)
                         ELSE task,
                         NextCfg(nextConfigIndex(cfgIdx, ok), env),
                         [log EXCEPT ![tk.acct].backfillDone = ok])
       ELSE \* the rejection leaves startSync
            /\ task' = [task EXCEPT ![Main] =
                          [IdleTask EXCEPT !.pc = "raised"]]
            /\ UNCHANGED << clients, cfgIdx >>
            /\ acctLog' = log

\* Faulty variant: the catch block of the callback removes the listener.
listenerRemovedOnError(reg, a) == [reg EXCEPT ![a] = FALSE]

\* The catch block of the 'exists' callback only logs: the listener stays
\* installed.
listenersAfterCatch(reg, a) == reg

\* The 'exists' callback ends, normally or (threw) through its catch
\* block.  acctLog notes a catch on a session that has emitted 'error'.
HandlerEnd(t, tk, release, threw) ==
    /\ lock' = IF release THEN [lock EXCEPT ![tk.acct] = NoTask] ELSE lock
    /\ task' = [task EXCEPT ![t] = IdleTask]
    /\ registered' = IF threw THEN listenersAfterCatch(registered, tk.acct)
                     ELSE registered
    /\ acctLog' = IF threw /\ acctLog[tk.acct].errored
                  THEN [acctLog EXCEPT ![tk.acct].caught = TRUE]
                  ELSE acctLog
    /\ UNCHANGED << clients, cfgIdx >>

\* Normal end of one loop iteration (processAndIndexEmail returned, or the
\* fetch returned nothing): the next UID of initialSync, or the finally
\* block and the end of the function.
LoopNext(t, tk) ==
    IF t = Main
    THEN IF tk.i < Len(tk.uids)
         THEN Stay(t, [tk EXCEPT !.pc = "fetch", !.i = @ + 1,
                                 !.cat = NoCategory, !.doc = NoDoc,
                                 !.att = NoAttempt])
         ELSE AccountEnd(tk, TRUE, finallyReleases(FALSE), acctLog)
    ELSE HandlerEnd(t, tk, finallyReleases(FALSE), FALSE)

\* An exception inside the locked region: finally releases the lock and the
\* exception reaches the catch of connectAndSyncAccount / of the callback.
LoopThrow(t, tk, imap) ==
    IF t = Main
    THEN AccountEnd(tk, FALSE, finallyReleases(TRUE),
                    [acctLog EXCEPT ![tk.acct].imapFailure = @ \/ imap])
    ELSE HandlerEnd(t, tk, finallyReleases(TRUE), TRUE)

\* The promise of processAndIndexEmail settles: "returned" or "raised".
\* The awaiting caller resumes in a later step (ProcSettled).
ProcReturn(t, tk, outcome) ==
    Stay(t, [tk EXCEPT !.pc = "settled", !.att.outcome = outcome])

(***************************************************************************)
(* processAndIndexEmail.                                                   *)
(***************************************************************************)

\* if (!sourceBuffer) return;
sourceMissing(kind) == kind = "absent"

\* Faulty variant: a parse failure is swallowed and processing goes on.
parseOkAlways(kind) == TRUE

\* await simpleParser(sourceBuffer) resolves (TRUE) or rejects (FALSE).
parseOk(kind) == kind \in { "dated", "nodate" }

\* From the EmailDocument literal to 'await this.esService.indexDocument'.
\* 'parsed.date || new Date()' reads the clock only when the message has
\* no date; the clock shows the last value read or a later one.
BuildAndIndex(t, tk, aiCategory, fellBack) ==
    \E clock \in now..MaxClock :
       /\ now' = IF tk.att.kind = "dated" THEN now ELSE clock
       /\ Stay(t, [tk EXCEPT
                    !.pc = "index",
                    !.cat = aiCategory,
                    !.doc = emailDocument(tk.acct, tk.att.uid, INBOX,
                                          tk.att.kind, aiCategory, now',
                                          mailTo[tk.acct][tk.att.uid]),
                    !.att.stage = "classified",
                    !.att.fallback = fellBack,
                    !.att.esCalls = @ + 1])

\* Faulty variant: the lock is released as soon as the message is fetched.
lockReleasedAfterFetch(l, a) == [l EXCEPT ![a] = NoTask]

\* The mailbox locks once fetchOne has returned a message: 'await
\* this.processAndIndexEmail' stands inside the try block whose finally
\* releases the lock, so the lock stays with its holder.
lockAfterFetch(l, a) == l

\* processAndIndexEmail is called with a fetched message, up to its first
\* await (simpleParser) or its early return.
BeginProcess(t, tk) ==
    LET uid  == tk.uids[tk.i]
        kind == MsgKind(tk.acct, uid)
        tk1  == [tk EXCEPT !.att = [NoAttempt EXCEPT !.uid = uid,
                                                     !.kind = kind,
                                                     !.stage = "fetched",
                                                     !.outcome = "running"],
                           !.cat = NoCategory, !.doc = NoDoc]
    IN /\ task' = [task EXCEPT ![t] =
                      IF sourceMissing(kind)
                      THEN [tk1 EXCEPT !.pc = "settled",
                                       !.att.stage = "skipped",
                                       !.att.outcome = "returned"]
                      ELSE [tk1 EXCEPT !.pc = "parse"]]
       /\ lock' = lockAfterFetch(lock, tk.acct)
       /\ UNCHANGED << registered, clients, cfgIdx, acctLog >>

\* simpleParser settles; on success categorizeEmail runs up to the API call
\* (or returns at once when OPENAI_API_KEY is not set).
ParseReturn(t) ==
    LET tk == task[t] IN
    /\ tk.pc = "parse"
    /\ IF parseOk(tk.att.kind)
       THEN IF ~env.apiKey
            THEN BuildAndIndex(t, [tk EXCEPT !.att.stage = "parsed"],
                               "Uncategorized", TRUE)
            ELSE /\ Stay(t, [tk EXCEPT !.pc = "classify",
                                       !.att.stage = "parsed",
                                       !.att.oracleCalls = @ + 1])
                 /\ now' = now
       ELSE /\ ProcReturn(t, [tk EXCEPT !.att.stage = "skipped"],
                          processCatch)
            /\ now' = now
    /\ UNCHANGED << env, mailTo, apiReply, server, old, mcount, store >>

\* The OpenAI call settles; categorizeEmail returns and the document is
\* built and handed to indexDocument.
ClassifyReturn(t, replies) ==
    LET tk == task[t] IN
    /\ tk.pc = "classify"
    /\ \E reply \in replies :
          BuildAndIndex(t, tk, categorizeEmailResult(reply),
                        ~(reply.kind = "object"
                          /\ reply.category \in VALID_CATEGORIES))
    /\ UNCHANGED << env, mailTo, apiReply, server, old, mcount, store >>

\* Faulty variant: the webhook is the else branch of the Slack test.
webhookOnlyWithoutSlack(e) == e.webhookUrl /\ ~e.slackUrl

\* triggerInterestedAutomation, 'if (EXTERNAL_WEBHOOK_URL)': a test of its
\* own, made after the Slack branch whichever way that went.
webhookConfigured(e) == e.webhookUrl

\* triggerInterestedAutomation up to its first await, or its return.
BeginAutomation(t, tk) ==
    LET tk1 == [tk EXCEPT !.att.notified = @ + 1, !.att.stage = "notified"]
    IN IF env.slackUrl
       THEN Stay(t, [tk1 EXCEPT !.pc = "slack", !.att.slack = @ + 1])
       ELSE IF webhookConfigured(env)
       THEN Stay(t, [tk1 EXCEPT !.pc = "webhook", !.att.webhook = @ + 1])
       ELSE ProcReturn(t, tk1, "returned")

\* Faulty variant: a message whose stored document is already 'Interested'
\* is taken as notified.
notifiedPerStore(st, doc) ==
    doc.id \in DOMAIN st /\ shouldAutomate(st[doc.id].ai_category)

\* processAndIndexEmail keeps no record of the messages it has notified
\* about: nothing is consulted between indexDocument and the automation
\* test.
alreadyNotified(st, doc) == FALSE

\* client.index settles; indexDocument returns; the automation test.
IndexReturn(t) ==
    LET tk == task[t] IN
    /\ tk.pc = "index"
    /\ \E esOk \in BOOLEAN :
         LET tk1 == [tk EXCEPT !.att.esFailed = ~esOk,
                               !.att.stage = IF esOk THEN "indexed"
                                             ELSE "indexFailed"]
         IN /\ store' = IF esOk THEN esIndex(store, tk.doc) ELSE store
            /\ IF ~esOk /\ indexDocumentOutcome(esOk) = "raised"
               THEN ProcReturn(t, tk1, processCatch)
               ELSE IF shouldAutomate(tk.cat)
                       /\ ~alreadyNotified(store, tk.doc)
               THEN BeginAutomation(t, tk1)
               ELSE ProcReturn(t, tk1, "returned")
    /\ UNCHANGED << env, mailTo, apiReply, server, old, now, mcount >>

\* axios.post to Slack settles; then the external webhook, if configured.
SlackReturn(t) ==
    LET tk == task[t] IN
    /\ tk.pc = "slack"
    /\ \E ok \in BOOLEAN :
         LET tk1 == [tk EXCEPT !.att.slackFailed = ~ok] IN
         IF ~ok /\ channelCatch = "raised"
         THEN ProcReturn(t, tk1, processCatch)
         ELSE IF webhookConfigured(env)
         THEN Stay(t, [tk1 EXCEPT !.pc = "webhook", !.att.webhook = @ + 1])
         ELSE ProcReturn(t, tk1, "returned")
    /\ UNCHANGED << env, mailTo, apiReply, server, old, now, mcount, store >>

\* axios.post to the external webhook settles.
WebhookReturn(t) ==
    LET tk == task[t] IN
    /\ tk.pc = "webhook"
    /\ \E ok \in BOOLEAN :
         LET tk1 == [tk EXCEPT !.att.webhookFailed = ~ok] IN
         IF ~ok /\ channelCatch = "raised"
         THEN ProcReturn(t, tk1, processCatch)
         ELSE ProcReturn(t, tk1, "returned")
    /\ UNCHANGED << env, mailTo, apiReply, server, old, now, mcount, store >>

\* The caller awaiting processAndIndexEmail resumes.
ProcSettled(t) ==
    LET tk == task[t] IN
    /\ tk.pc = "settled"
    /\ IF tk.att.outcome = "returned"
       THEN LoopNext(t, tk)
       ELSE LoopThrow(t, tk, FALSE)
    /\ UNCHANGED << env, mailTo, apiReply, server, old, now, mcount, store >>

(***************************************************************************)
(* startSync, connectAndSyncAccount, initialSync, setupRealTimeIdle.       *)
(***************************************************************************)

\* What the app.listen callback has seen esService.connect() return.
connectResult(esConnected) == IF esConnected THEN "yes" ELSE "no"

\* index.ts calls imapService.startSync().
StartSync(esConnected) ==
    /\ server' = [ esConnected |-> connectResult(esConnected),
                   startSyncCalls |-> server.startSyncCalls + 1 ]
    /\ EnterCfg(NextCfg(1, env), acctLog)

\* The else branch of the app.listen callback: 'IMAP Sync SKIPPED' is
\* logged and the callback returns.
SyncSkipped(esConnected) ==
    /\ server' = [server EXCEPT !.esConnected = connectResult(esConnected)]
    /\ task' = [task EXCEPT ![Main].pc = "skipped"]
    /\ UNCHANGED << clients, cfgIdx, acctLog >>

\* The app.listen callback resumes when 'await esService.connect()' has
\* settled: connect() resolves true when client.info and the index
\* creation succeeded and false when either threw.
ServerStart ==
    /\ task[Main].pc = "idle"
    /\ server.esConnected = "pending"
    /\ cfgIdx = 0
    /\ \E esConnected \in BOOLEAN :
          IF syncGate(esConnected) THEN StartSync(esConnected)
          ELSE SyncSkipped(esConnected)
    /\ UNCHANGED << env, mailTo, apiReply, old, now, mcount, store, lock, registered >>

\* client.connect() settles; on success initialSync runs up to
\* 'await client.getMailboxLock'.
ConnectReturn ==
    LET tk == task[Main] IN
    /\ tk.pc = "connect"
    /\ \E ok \in BOOLEAN :
         IF ok
         THEN Stay(Main, [tk EXCEPT !.pc = "lock",
                                    !.since = sinceDate(now)])
         ELSE AccountEnd(tk, FALSE, FALSE,
                         [acctLog EXCEPT ![tk.acct].connectFailed = TRUE,
                                         ![tk.acct].imapFailure = TRUE])
    /\ UNCHANGED << env, mailTo, apiReply, server, old, now, mcount, store >>

\* Faulty variant: the listener is installed when the client is created.
listeningFromCreation(a) == a \in clients

\* client.on('exists', ...) has run for the account's client: it runs in
\* setupRealTimeIdle, which connectAndSyncAccount calls once 'await
\* this.initialSync' has returned.
listening(a) == registered[a]

\* The server reports a change of the message count: the 'exists' listener,
\* if installed, starts a callback that runs up to 'await getMailboxLock'.
\* At most the callbacks 'hs' are in flight at once.
ExistsAmong(a, hs) ==
    /\ listening(a)
    /\ \E t \in hs :
         /\ task[t].pc = "idle"
         /\ \A t2 \in hs : t2 < t => task[t2].pc # "idle"
         /\ Stay(t, [task[t] EXCEPT !.pc = "lock", !.acct = a])
    /\ UNCHANGED << env, mailTo, apiReply, server, old, now, mcount, store >>

Exists(a) == ExistsAmong(a, 1..MaxHandlers)

\* Faulty variant: the caller goes on without waiting for the lock.
lockNotAwaited(a) == TRUE

\* 'await client.getMailboxLock': the promise resolves only while no other
\* caller holds the lock of the mailbox.
lockGranted(a) == lock[a] = NoTask

\* getMailboxLock settles: the lock is granted when free, or the call
\* rejects; on success the search is issued.
LockReturn(t) ==
    LET tk == task[t] IN
    /\ tk.pc = "lock"
    /\ \/ /\ lockGranted(tk.acct)
          /\ lock' = [lock EXCEPT ![tk.acct] = t]
          /\ task' = [task EXCEPT ![t] = [tk EXCEPT !.pc = "search"]]
          /\ UNCHANGED << registered, clients, cfgIdx, acctLog >>
       \/ IF t = Main
          THEN AccountEnd(tk, FALSE, FALSE,
                          [acctLog EXCEPT ![tk.acct].imapFailure = TRUE])
          ELSE HandlerEnd(t, tk, FALSE, TRUE)
    /\ UNCHANGED << env, mailTo, apiReply, server, old, now, mcount, store >>

\* The UIDs the server holds, in ascending order.
MailboxUids(a) == [ i \in 1..mcount[a] |-> i ]

InternalDate(a, u) == IF u <= old[a] THEN OldDate ELSE RecentDate

\* What the server answers to search({ since }): the UIDs received on or
\* after that day.
SearchSince(a, since) ==
    SelectSeq(MailboxUids(a), LAMBDA u : InternalDate(a, u) >= since)

\* What the server answers to search({ seen: false }): no message of the
\* mailbox has been marked as read.
SearchUnseen(a) == MailboxUids(a)

\* client.search settles: an array of UIDs, something that is not an array
\* (treated as no UIDs), or a rejection.
SearchReturn(t) ==
    LET tk == task[t] IN
    /\ tk.pc = "search"
    /\ \E res \in { "array", "other", "throw" } :
         LET found == IF t = Main THEN SearchSince(tk.acct, tk.since)
                      ELSE SearchUnseen(tk.acct)
             uids  == IF res # "array" THEN << >>
                      ELSE IF t = Main THEN backfillOrder(found)
                      ELSE found
         IN IF res = "throw" THEN LoopThrow(t, tk, TRUE)
            ELSE IF uids = << >>
            THEN LoopNext(t, [tk EXCEPT !.uids = << >>, !.i = 0])
            ELSE Stay(t, [tk EXCEPT !.pc = "fetch", !.uids = uids,
                             !.i = IF t = Main THEN 1
                                   ELSE latestUidIndex(uids)])
    /\ UNCHANGED << env, mailTo, apiReply, server, old, now, mcount, store >>

\* client.fetchOne settles: a message, nothing, or a rejection.
FetchReturn(t) ==
    LET tk == task[t] IN
    /\ tk.pc = "fetch"
    /\ \E res \in { "msg", "nothing", "throw" } :
         CASE res = "msg"     -> BeginProcess(t, tk)
           [] res = "nothing" -> LoopNext(t, tk)
           [] OTHER           -> LoopThrow(t, tk, TRUE)
    /\ UNCHANGED << env, mailTo, apiReply, server, old, now, mcount, store >>

(***************************************************************************)
(* Environment.                                                            *)
(***************************************************************************)

\* A new message is delivered to the account's INBOX.
Arrive(a) ==
    /\ mcount[a] < MaxUid
    /\ mcount' = [mcount EXCEPT ![a] = @ + 1]
    /\ UNCHANGED << env, mailTo, apiReply, server, old, now, clients, registered, lock, task, cfgIdx,
                    store, acctLog >>

\* The client of the account emits 'exists' while no listener is installed
\* (during connect or backfill, or after a failed one): the event is
\* dropped.
ExistsUnheard(a) ==
    /\ a \in clients
    /\ ~listening(a)
    /\ ~acctLog[a].missed
    /\ acctLog' = [acctLog EXCEPT ![a].missed = TRUE]
    /\ UNCHANGED << env, mailTo, apiReply, server, old, now, mcount, clients,
                    registered, lock, task, cfgIdx, store >>

\* The client of the account emits 'error': the listener installed by
\* setupRealTimeIdle logs it and does nothing else.
SessionError(a) ==
    /\ registered[a]
    /\ ~acctLog[a].errored
    /\ acctLog' = [acctLog EXCEPT ![a].errored = TRUE]
    /\ UNCHANGED << env, mailTo, apiReply, server, old, now, mcount, clients, registered, lock, task,
                    cfgIdx, store >>

\* GET /api/status: imapClientCount = imapService.clients.size, reported
\* as accounts_configured.
accountsConfigured(cl) == Cardinality(cl)

\* GET /api/status: the imap field of the response.
imapStatus(cl) ==
    IF accountsConfigured(cl) > 0 THEN "Initialized and Syncing"
    ELSE "Not yet started"

\* startSync and the backfill of each account.
SyncNext ==
    \/ ServerStart
    \/ ConnectReturn
    \/ \E t \in Tasks : LockReturn(t)
    \/ \E t \in Tasks : SearchReturn(t)
    \/ \E t \in Tasks : FetchReturn(t)
    \/ \E t \in Tasks : ProcSettled(t)
    \/ \E a \in Accounts : Arrive(a)

\* processAndIndexEmail, the oracle answering with one of 'replies'.
ProcNext(replies) ==
    \/ \E t \in Tasks : ParseReturn(t)
    \/ \E t \in Tasks : ClassifyReturn(t, replies)
    \/ \E t \in Tasks : IndexReturn(t)
    \/ \E t \in Tasks : SlackReturn(t)
    \/ \E t \in Tasks : WebhookReturn(t)

\* Change notifications from the servers.
LiveNext == \E a \in Accounts : Exists(a)

Next == SyncNext \/ LiveNext \/ ProcNext(SampleReplies)

\* The whole system: backfill and live sync of every account.
Spec == Init /\ [][Next]_vars

NextBackfill == SyncNext \/ ProcNext(OracleReplies)

\* The system as long as no server sends a change notification, with every
\* oracle reply.
SpecBackfill == InitAll /\ [][NextBackfill]_vars

\* The replies used where overlapping callbacks are explored: a failed
\* call, the label that triggers automation and one that does not.
LiveReplies ==
    { r \in OracleReplies :
          r.kind = "reject" \/ r.category \in { "Interested", "Spam" } }

\* Only the first account is synchronised.
InitLive ==
    InitWith({ e \in Env : e.apiKey /\ e.slackUrl /\ e.webhookUrl
                              /\ ~e.creds2 }, 0)

NextLive ==
    \/ SyncNext
    \/ \E a \in Accounts : ExistsAmong(a, Handlers)
    \/ \E a \in Accounts : SessionError(a)
    \/ \E a \in Accounts : ExistsUnheard(a)
    \/ ProcNext(LiveReplies)

\* One account whose server sends change notifications while earlier ones
\* are still being handled.
SpecLive == InitLive /\ [][NextLive]_vars

(***************************************************************************)
(* GET /api/emails and ElasticsearchService.searchEmails.  The documents   *)
(* of the model carry no subject or body, so requests come without q and   *)
(* the query is match_all plus the term filters.                           *)
(***************************************************************************)
MaxPage     == 2
MaxPageSize == 2

\* Values of the accountId and folder parameters; "" is a missing one.
AccountFilters == { "" } \cup Accounts
FolderFilters  == { "", INBOX, "Sent" }

\* 'if (folder) filter.push(term folder)', 'if (accountId) filter.push(term
\* account_id)': the stored documents the bool query selects.
esMatches(st, accountId, folder) ==
    { k \in DOMAIN st :
         /\ (folder # "" => st[k].folder = folder)
         /\ (accountId # "" => st[k].account_id = accountId) }

\* sort: [{ date: { order: 'desc' } }]: the orders in which Elasticsearch
\* may rank the selected documents (documents of equal date in any order).
esSorted(st, ids) ==
    { sq \in [1..Cardinality(ids) -> ids] :
         /\ \A i, j \in DOMAIN sq : i # j => sq[i] # sq[j]
         /\ \A i, j \in DOMAIN sq : i < j => st[sq[i]].date >= st[sq[j]].date }

\* from: (page - 1) * pageSize, size: pageSize.
esPage(ranked, page, pageSize) ==
    LET from  == (page - 1) * pageSize
        upper == IF from + pageSize < Len(ranked) THEN from + pageSize
                 ELSE Len(ranked)
    IN IF from >= Len(ranked) THEN << >>
       ELSE [ i \in 1..(upper - from) |-> ranked[from + i] ]

\* What Elasticsearch answers to the search request: hits.total.value and
\* hits.hits, each hit carrying the document as _source.
esSearchBody(st, ranked, page, pageSize) ==
    [ hits |-> [ total |-> [ value |-> Len(ranked) ],
                 hits  |-> [ i \in DOMAIN esPage(ranked, page, pageSize) |->
                              [ _source |-> st[esPage(ranked, page, pageSize)[i]] ] ] ] ]

\* What 'await this.client.search(...)' resolves to.  The service uses the
\* version 8 client (document: in index(), a boolean from indices.exists,
\* README: npm install @elastic/elasticsearch@8), whose API calls resolve
\* to the response body itself.
clientResolves(body) == body

\* response.body?.hits?.total?.value ?? 0
totalOf(response) ==
    IF "body" \in DOMAIN response THEN response.body.hits.total.value ELSE 0

\* (response.body?.hits?.hits || []).map(hit => hit._source)
emailsOf(response) ==
    IF "body" \in DOMAIN response
    THEN [ i \in DOMAIN response.body.hits.hits |->
              response.body.hits.hits[i]._source ]
    ELSE << >>

\* searchEmails: what it returns when client.search resolved with
\* 'response' (ok) or rejected.
searchEmails(ok, response) ==
    IF ok THEN [ emails |-> emailsOf(response), total |-> totalOf(response) ]
    ELSE [ emails |-> << >>, total |-> 0 ]

\* GET /api/emails is answered: the request's parameters, the outcome of
\* client.search on the store as it is, and res.json(results).
GetEmails ==
    /\ \E accountId \in AccountFilters, folder \in FolderFilters,
          page \in 1..MaxPage, pageSize \in 1..MaxPageSize, ok \in BOOLEAN :
          \E ranked \in esSorted(store, esMatches(store, accountId, folder)) :
             LET response == clientResolves(
                                esSearchBody(store, ranked, page, pageSize))
                 results  == searchEmails(ok, response)
             IN apiReply' = [ accountId |-> accountId, folder |-> folder,
                              page |-> page, pageSize |-> pageSize,
                              failed |-> ~ok,
                              emails |-> results.emails,
                              total |-> results.total ]
    /\ UNCHANGED << env, mailTo, server, old, now, mcount, clients,
                    registered, lock, task, cfgIdx, store, acctLog >>

\* The documents processAndIndexEmail can have written for a message.
DocumentsOf(a, u) ==
    { emailDocument(a, u, INBOX, MsgKind(a, u), c, clock, PlainTo) :
         c \in { "Interested", "Spam" }, clock \in 1..MaxClock }

\* The index outlives the process (the esdata volume): what earlier runs
\* can have left in it, at most one document per readable message.
StoresLeft ==
    LET msgs == { m \in Accounts \X UIDs :
                     MsgKind(m[1], m[2]) \in { "dated", "nodate" } }
        ids  == { DocId(m[1], m[2]) : m \in msgs }
        docs == UNION { DocumentsOf(m[1], m[2]) : m \in msgs }
    IN UNION { { st \in [S -> docs] : \A k \in S : st[k].id = k } :
                  S \in SUBSET ids }

InitSearch ==
    /\ env \in { e \in Env : e.apiKey /\ e.slackUrl /\ e.webhookUrl
                                /\ e.creds2 }
    /\ mailTo = [a \in Accounts |-> [u \in UIDs |-> PlainTo]]
    /\ server = NewServer
    /\ apiReply = NoReply
    /\ now = 1
    /\ mcount = [a \in Accounts |-> MaxUid]
    /\ old = [a \in Accounts |-> 0]
    /\ clients = {}
    /\ registered = [a \in Accounts |-> FALSE]
    /\ lock = [a \in Accounts |-> NoTask]
    /\ task = [t \in Tasks |-> IdleTask]
    /\ cfgIdx = 0
    /\ store \in StoresLeft
    /\ acctLog = [a \in Accounts |-> NewAcctLog]

NextSearch == GetEmails

\* GET /api/emails requests answered by a server whose index holds what
\* earlier runs have written, before the mailbox sync has started.
SpecSearch == InitSearch /\ [][NextSearch]_vars

InitToList ==
    /\ InitMail({ e \in Env : e.apiKey /\ e.slackUrl /\ e.webhookUrl
                                /\ ~e.creds2 }, 0, ParsedTo)
    /\ mcount[ACCOUNT_CONFIGS[1]] = 1

NextToList == SyncNext \/ ProcNext(LiveReplies)

\* The backfill of one message of the first account, for every shape of
\* the message's parsed.to.
SpecToList == InitToList /\ [][NextToList]_vars

\* A step in which no external operation fails the synchronisation: no
\* IMAP operation rejects, search answers with its array, fetchOne returns
\* the message and client.index succeeds.  (The oracle and the notification
\* channels may still fail.)
Healthy ==
    /\ server'.esConnected # "no"
    /\ \A a \in Accounts : acctLog'[a].imapFailure = acctLog[a].imapFailure
    /\ \A t \in Tasks :
          LET h  == task[t]
              h2 == task'[t]
              found == IF t = Main THEN SearchSince(h.acct, h.since)
                       ELSE SearchUnseen(h.acct)
          IN
          /\ (h.pc = "lock" /\ h2 # h) => h2.pc = "search"
          /\ (h.pc = "search" /\ h2 # h /\ found # << >>) => h2.pc = "fetch"
          /\ (h.pc = "fetch" /\ h2 # h) => h2.pc \in { "parse", "settled" }
          /\ ~h2.att.esFailed

\* The steps of task t: every one is the continuation of a settled promise.
TaskStep(t) ==
    \/ t = Main /\ (ServerStart \/ ConnectReturn)
    \/ LockReturn(t)
    \/ SearchReturn(t)
    \/ FetchReturn(t)
    \/ ProcSettled(t)
    \/ ParseReturn(t)
    \/ ClassifyReturn(t, SampleReplies)
    \/ IndexReturn(t)
    \/ SlackReturn(t)
    \/ WebhookReturn(t)

NextHealthy ==
    \/ ServerStart /\ Healthy
    \/ ConnectReturn /\ Healthy
    \/ \E t \in Tasks : LockReturn(t) /\ Healthy
    \/ \E t \in Tasks : SearchReturn(t) /\ Healthy
    \/ \E t \in Tasks : FetchReturn(t) /\ Healthy
    \/ \E t \in Tasks : ProcSettled(t) /\ Healthy
    \/ \E t \in Tasks : ParseReturn(t) /\ Healthy
    \/ \E t \in Tasks : ClassifyReturn(t, SampleReplies) /\ Healthy
    \/ \E t \in Tasks : IndexReturn(t) /\ Healthy
    \/ \E t \in Tasks : SlackReturn(t) /\ Healthy
    \/ \E t \in Tasks : WebhookReturn(t) /\ Healthy
    \/ \E a \in Accounts : Exists(a) /\ Healthy
    \/ \E a \in Accounts : Arrive(a)

\* The whole system while every session and the index are healthy: every
\* awaited operation settles, and each server keeps sending change
\* notifications to an installed listener.
SpecHealthy ==
    /\ Init
    /\ [][NextHealthy]_vars
    /\ \A t \in Tasks : WF_vars(TaskStep(t) /\ Healthy)
    /\ \A a \in Accounts : WF_vars(Exists(a) /\ Healthy)

(***************************************************************************)
(* Properties.                                                             *)
(***************************************************************************)

\* The running (or just settled) processAndIndexEmail call of task t.
Att(t) == task[t].att

\* The call of task t has handed its document to indexDocument.
ReachedIndex(t) == Att(t).esCalls = 1

\* The call of task t has passed the automation test.
PastAutomationTest(t) ==
    ReachedIndex(t) /\ task[t].pc \in { "slack", "webhook", "settled" }

\* C1: when the store upsert fails, no exception escapes
\* processAndIndexEmail and triggerInterestedAutomation is not invoked for
\* that message, whatever the classifier returned.
C1_StoreFailureSuppressesNotification ==
    \A t \in Tasks :
        Att(t).esFailed =>
            /\ Att(t).notified = 0
            /\ Att(t).outcome # "raised"

\* C2: with the classifier's output pinned, processing the same raw message
\* again leaves the store as it was: the document stored under
\* '{accountId}-{uid}' keeps identical field values.
C2_ReprocessingIsIdempotent ==
    [][ \A k \in DOMAIN store :
           /\ k \in DOMAIN store'
           /\ (store'[k].ai_category = store[k].ai_category
                 => store'[k] = store[k]) ]_vars

\* Distinct (account, UID) pairs have distinct document ids.
DocIdInjective ==
    \A p, q \in Accounts \X UIDs :
        DocId(p[1], p[2]) = DocId(q[1], q[2]) => p = q

\* C3: the store holds at most one document per (account_id, uid): every
\* document is stored under its own id, that id is '{account_id}-{uid}' of
\* exactly one pair, distinct pairs never share an id, and the document a
\* call has just written is the one found under its id.
C3_OneDocumentPerMessage ==
    /\ \A k \in DOMAIN store :
          /\ store[k].id = k
          /\ Cardinality({ p \in Accounts \X UIDs :
                             DocId(p[1], p[2]) = k
                             /\ store[k].account_id = p[1] }) = 1
    /\ DocIdInjective
    /\ \A t \in Tasks :
          (PastAutomationTest(t) /\ ~Att(t).esFailed) =>
              /\ task[t].doc.id \in DOMAIN store
              /\ store[task[t].doc.id] = task[t].doc

\* A live callback has rewritten a document while both accounts have one.
C3_Witness ==
    /\ Cardinality(DOMAIN store) = 2
    /\ \E t \in Handlers :
          /\ task[t].pc = "settled"
          /\ ReachedIndex(t)
          /\ ~Att(t).esFailed

\* C4: when the oracle call fails, answers with empty or malformed output
\* or with a label outside the six, or classification is disabled (the
\* oracle is then not called), categorizeEmail yields 'Uncategorized'
\* without raising and the message is still handed to the index with
\* ai_category 'Uncategorized'.
C4_ClassificationFallback ==
    \A t \in Tasks :
        /\ ~env.apiKey => Att(t).oracleCalls = 0
        /\ (Att(t).fallback) =>
              /\ ReachedIndex(t)
              /\ task[t].cat = "Uncategorized"
              /\ task[t].doc.ai_category = "Uncategorized"
              /\ Att(t).outcome # "raised"
              /\ (PastAutomationTest(t) /\ ~Att(t).esFailed) =>
                    /\ task[t].doc.id \in DOMAIN store
                    /\ store[task[t].doc.id].ai_category = "Uncategorized"

\* The oracle was called, its answer was unusable, the document is stored.
C4_Witness ==
    \E t \in Tasks :
        /\ task[t].pc = "settled"
        /\ Att(t).fallback
        /\ Att(t).oracleCalls = 1
        /\ ~Att(t).esFailed
        /\ task[t].doc.id \in DOMAIN store

\* C5: every stored document has an ai_category that is one of the six
\* labels; it is never absent.
C5_StoredCategoryValid ==
    \A k \in DOMAIN store : store[k].ai_category \in VALID_CATEGORIES

\* Both accounts have a stored document, one of them written after the
\* oracle call failed.
C5_Witness ==
    /\ \E k \in DOMAIN store : store[k].ai_category = "Uncategorized"
    /\ \E k \in DOMAIN store : store[k].ai_category = "Interested"
    /\ \E t \in Tasks : /\ Att(t).fallback
                        /\ task[t].pc = "settled"
                        /\ ~Att(t).esFailed

\* C6: once a call has reached the automation step,
\* triggerInterestedAutomation has been invoked (once) if and only if the
\* category is 'Interested'; before that step and for the other five labels
\* it has not been invoked.
C6_AutomationGating ==
    \A t \in Tasks :
        Att(t).notified =
            IF PastAutomationTest(t) /\ task[t].cat = "Interested"
            THEN 1 ELSE 0

\* An 'Interested' message was indexed and the automation was triggered.
C6_Witness ==
    \E t \in Tasks :
        /\ task[t].pc = "settled"
        /\ task[t].cat = "Interested"
        /\ Att(t).notified = 1
        /\ ~Att(t).esFailed

\* C7: a message whose source is absent or cannot be parsed is skipped:
\* every step of its processing leaves the store unchanged and the call
\* makes no store write, no oracle call and no notification.
C7_UnreadableSourceSkipped ==
    [][ \A t \in Tasks :
          (task'[t] # task[t]
             /\ task'[t].att.kind \in { "absent", "unparsable" }) =>
              /\ store' = store
              /\ task'[t].att.esCalls = 0
              /\ task'[t].att.oracleCalls = 0
              /\ task'[t].att.notified = 0
              /\ task'[t].pc \in { "parse", "settled" } ]_vars

\* A call on a message without source has returned.
C7_Witness ==
    \E t \in Tasks :
        /\ task[t].pc = "settled"
        /\ Att(t).kind = "absent"
        /\ Att(t).stage = "skipped"

\* C8: processAndIndexEmail never raises to its caller, whichever of the
\* parse, the oracle, the store or the notification channels fails.
C8_ProcessNeverRaises ==
    \A t \in Tasks :
        /\ Att(t).outcome \in { "none", "running", "returned" }
        /\ task[t].pc = "settled" => Att(t).outcome = "returned"

\* A call whose parse failed has returned normally.
C8_Witness ==
    \E t \in Tasks :
        /\ task[t].pc = "settled"
        /\ Att(t).kind = "unparsable"
        /\ Att(t).outcome = "returned"

\* startSync has run to its end (or has been left by an exception).
SyncEnded == task[Main].pc \in { "done", "raised" }

Eligible(a) == configEligible(AccountIndex(a), env)

\* C9: if account A's connect fails, account B's connect is still
\* attempted, and unless one of B's own IMAP operations fails B's backfill
\* runs to completion and B's live handler is registered.
C9_AccountIsolation ==
    \A a, b \in Accounts :
        (a # b /\ acctLog[a].connectFailed /\ Eligible(b) /\ SyncEnded) =>
            /\ acctLog[b].attempted
            /\ b \in clients
            /\ ~acctLog[b].imapFailure =>
                  (acctLog[b].backfillDone /\ registered[b])

\* The first account's connect failed; the second account was backfilled,
\* has its document stored and listens for change notifications.
C9_Witness ==
    /\ acctLog[ACCOUNT_CONFIGS[1]].connectFailed
    /\ acctLog[ACCOUNT_CONFIGS[2]].backfillDone
    /\ registered[ACCOUNT_CONFIGS[2]]
    /\ DocId(ACCOUNT_CONFIGS[2], 1) \in DOMAIN store
    /\ task[Main].pc = "done"

\* C10: accounts are synchronised by independent tasks: while one
\* account's connect or backfill is still in progress, every other account
\* that is to be synchronised has been started as well.
C10_AccountsStartIndependently ==
    \A b \in Accounts :
        (task[Main].pc \notin { "idle", "done", "raised" } /\ Eligible(b)) =>
            acctLog[b].attempted

\* The stages of initialSync and of an 'exists' callback from the request
\* for the mailbox lock to the return of processAndIndexEmail.
SyncPcs ==
    { "lock", "search", "fetch", "parse", "classify", "index", "slack",
      "webhook", "settled" }

\* initialSync of account a is running.
BackfillRunning(a) == task[Main].acct = a /\ task[Main].pc \in SyncPcs

\* C11: within one account backfill runs to completion before live sync
\* begins: the 'exists' listener is installed only after initialSync has
\* returned, so no callback searches, fetches or processes for an account
\* whose backfill is still running or has not completed.
C11_BackfillBeforeLiveSync ==
    /\ \A a \in Accounts : registered[a] => acctLog[a].backfillDone
    /\ \A t \in Handlers :
          task[t].pc # "idle" =>
              /\ acctLog[task[t].acct].backfillDone
              /\ ~BackfillRunning(task[t].acct)

\* A callback of the first account is searching while the backfill of the
\* second account is fetching.
C11_Witness ==
    \E t \in Handlers :
        /\ task[t].acct = ACCOUNT_CONFIGS[1]
        /\ task[t].pc = "search"
        /\ BackfillRunning(ACCOUNT_CONFIGS[2])
        /\ task[Main].pc = "fetch"

\* The stages of the for loop of initialSync.
LoopPcs ==
    { "fetch", "parse", "classify", "index", "slack", "webhook", "settled" }

\* C12: errors never cross message boundaries in the backfill loop: as long
\* as UIDs of the search result remain, whatever happens while one UID is
\* handled, the loop is not left and goes on with the same search result.
C12_BackfillLoopContinues ==
    [][ LET m == task[Main] IN
        (m.pc \in LoopPcs /\ m.i < Len(m.uids)) =>
            /\ task'[Main].pc \in LoopPcs
            /\ task'[Main].acct = m.acct
            /\ task'[Main].uids = m.uids
            /\ task'[Main].i \in { m.i, m.i + 1 } ]_vars

\* The UIDs of account a received on or after day 'since'.
ReceivedSince(a, since) ==
    { u \in 1..mcount[a] : InternalDate(a, u) >= since }

\* C13: backfill searches with the lower bound 'now minus 30 days' and
\* works on exactly the UIDs that search returns, each once; a fetched
\* message is handed to the processor under its own UID, which lies in the
\* window; a UID received before the window is never fetched or processed;
\* a fetch that returns nothing starts no processing and changes no
\* document.
C13_BackfillWindow ==
    [][ LET m  == task[Main]
            m2 == task'[Main]
        IN
        /\ (m.pc = "connect" /\ m2.pc = "lock") =>
               m2.since = now - WindowDays
        /\ (m.pc = "search" /\ m2.pc = "fetch") =>
               /\ m2.i = 1
               /\ Len(m2.uids) = Cardinality(ReceivedSince(m.acct, m.since))
               /\ \A k \in 1..Len(m2.uids) :
                      /\ m2.uids[k] \in ReceivedSince(m.acct, m.since)
                      /\ \A j \in 1..Len(m2.uids) :
                             m2.uids[j] = m2.uids[k] => j = k
        /\ (m.pc = "fetch" /\ m2 # m) =>
               \/ /\ m2.pc \in { "parse", "settled" }
                  /\ m2.att.uid = m.uids[m.i]
                  /\ m2.att.uid > old[m.acct]
                  /\ m2.att.uid \in ReceivedSince(m.acct, now - WindowDays)
               \/ /\ m2.att = NoAttempt
                  /\ store' = store ]_vars

\* The mailbox holds a message from before the window and a recent one;
\* backfill has enumerated and processed only the recent one.
C13_Witness ==
    LET m == task[Main] IN
    /\ m.pc = "settled"
    /\ old[m.acct] = 1
    /\ m.uids = << 2 >>
    /\ m.att.uid = 2

\* C14: within one account's backfill the messages are processed one at a
\* time in search-result order: the loop starts at the first UID of the
\* sequence search returned; the fetch of the next UID begins only from
\* the settled processing of the current UID (or from its fetch, when that
\* returned nothing), never from a processing stage; and the message being
\* processed is the one at the loop's position.
C14_BackfillSequentialInOrder ==
    [][ LET m  == task[Main]
            m2 == task'[Main]
        IN
        /\ (m2.pc = "fetch" /\ m2 # m) =>
               \/ /\ m.pc = "search"
                  /\ m2.uids = SearchSince(m.acct, m.since)
                  /\ m2.i = 1
               \/ /\ m.pc \in { "settled", "fetch" }
                  /\ m2.acct = m.acct
                  /\ m2.uids = m.uids
                  /\ m2.i = m.i + 1
                  /\ m.pc = "settled" =>
                        /\ m.att.outcome = "returned"
                        /\ m.att.uid = m.uids[m.i]
        /\ (m2.pc \in LoopPcs /\ m2.att.uid # 0) =>
               m2.att.uid = m2.uids[m2.i] ]_vars

\* Backfill is about to fetch the second UID; the document of the first is
\* stored.
C14_Witness ==
    LET m == task[Main] IN
    /\ m.pc = "fetch"
    /\ m.uids = << 1, 2 >>
    /\ m.i = 2
    /\ DocId(m.acct, 1) \in DOMAIN store

\* The stages between the grant of the mailbox lock and the finally block.
LockedPcs == SyncPcs \ { "lock" }

\* C15: the mailbox lock is released on every exit path: a lock is held
\* only by a backfill or callback that is still between the grant of the
\* lock and its finally block, for the account it works on; a task that has
\* ended, normally or because search, fetch or processing raised, holds no
\* lock.
C15_LockReleasedOnEveryExit ==
    /\ \A a \in Accounts :
          lock[a] # NoTask =>
              /\ task[lock[a]].acct = a
              /\ task[lock[a]].pc \in LockedPcs
    /\ \A t \in Tasks :
          task[t].pc \notin LockedPcs => \A a \in Accounts : lock[a] # t

\* Backfill stored the first message and was then ended by a rejected
\* fetch; startSync has returned and the lock of the account is free.
C15_Witness ==
    LET a == ACCOUNT_CONFIGS[1] IN
    /\ task[Main].pc = "done"
    /\ acctLog[a].imapFailure
    /\ ~acctLog[a].connectFailed
    /\ ~acctLog[a].backfillDone
    /\ DocId(a, 1) \in DOMAIN store
    /\ lock[a] = NoTask

\* C16: on each change notification the callback searches for unseen
\* messages and fetches and processes at most one message, the last element
\* of the sequence search returned: after the search it either fetches at
\* the last position of a non-empty result or ends without a fetch and
\* without a change of the store (always so when there is no unseen UID);
\* the message it processes is that last element; and it never starts a
\* second fetch.
C16_LiveHandlerTakesLatestOnly ==
    [][ \A t \in Handlers :
          LET h  == task[t]
              h2 == task'[t]
          IN
          /\ (h.pc = "search" /\ h2 # h) =>
                 \/ /\ h2.pc = "fetch"
                    /\ h2.uids = SearchUnseen(h.acct)
                    /\ h2.uids # << >>
                    /\ h2.i = Len(h2.uids)
                 \/ /\ h2 = IdleTask
                    /\ store' = store
          /\ (h.pc = "search" /\ h2 # h /\ SearchUnseen(h.acct) = << >>) =>
                 /\ h2 = IdleTask
                 /\ store' = store
          /\ (h.pc = "fetch" /\ h2 # h) =>
                 \/ /\ h2.pc \in { "parse", "settled" }
                    /\ h2.att.uid = h.uids[Len(h.uids)]
                 \/ h2 = IdleTask
          /\ (h.pc \in LoopPcs /\ h2.pc = "fetch") => h2 = h
          /\ (h.pc = "settled" /\ h2 # h) => h2 = IdleTask ]_vars

\* A callback found two unseen messages and has processed the second one.
C16_Witness ==
    \E t \in Handlers :
        /\ task[t].pc = "settled"
        /\ task[t].uids = << 1, 2 >>
        /\ Att(t).uid = 2

\* The stages of a processAndIndexEmail call, from its first await to the
\* moment its caller resumes.
ProcessPcs == { "parse", "classify", "index", "slack", "webhook", "settled" }

\* C17 (as stated): the mailbox lock covers only enumeration and fetch:
\* while a message is being classified or indexed, the task doing so no
\* longer holds the lock of its account.
C17_LockNotHeldWhileProcessing ==
    \A t \in Tasks :
        task[t].pc \in { "classify", "index" } => lock[task[t].acct] # t

\* C17 (amended): the mailbox lock covers enumeration, fetch and the whole
\* processAndIndexEmail call: from the search to the return of the
\* processing the task holds the lock of its account, so no other task
\* searches or fetches on that account meanwhile.
C17_LockHeldWhileProcessing ==
    \A t \in Tasks :
        task[t].pc \in LockedPcs =>
            /\ lock[task[t].acct] = t
            /\ \A t2 \in Tasks \ {t} :
                  task[t2].acct = task[t].acct => task[t2].pc \notin LockedPcs

\* A callback is waiting for the classification of its message while the
\* callback of the next notification is waiting for the lock.
C17_Witness ==
    \E t, t2 \in Handlers :
        /\ t # t2
        /\ task[t].acct = task[t2].acct
        /\ task[t].pc = "classify"
        /\ task[t2].pc = "lock"

\* The callbacks of account a that are between the grant of the lock and
\* the return of their processing.
InPipeline(a) ==
    { t \in Handlers : task[t].acct = a /\ task[t].pc \in LockedPcs }

\* C18: single flight per account: at any time at most one 'exists'
\* callback per account is executing its search / fetch / process pipeline;
\* a callback started while another one is in its pipeline is still waiting
\* for the lock.
C18_SingleFlightPerAccount ==
    \A a \in Accounts :
        /\ Cardinality(InPipeline(a)) <= 1
        /\ \A t \in Handlers :
              (task[t].acct = a /\ task[t].pc # "idle"
                 /\ InPipeline(a) \ {t} # {}) => task[t].pc = "lock"

\* Two notifications of one account: the callback of the first writes its
\* document to the index, the callback of the second is waiting.
C18_Witness ==
    \E a \in Accounts :
        /\ \E t \in InPipeline(a) : task[t].pc = "index"
        /\ \E t \in Handlers \ InPipeline(a) :
              task[t].acct = a /\ task[t].pc = "lock"

\* The message can be turned into a document: it has a source that parses.
Storable(a, u) == MsgKind(a, u) \in { "dated", "nodate" }

\* C19: pull and push sync together lose no message: every storable message
\* of a synchronised account that is in the mailbox (within the window at
\* backfill time, or delivered later, also in a burst or during backfill) is
\* eventually stored under its id while the session stays healthy.
C19_NoMessageLost ==
    \A a \in Accounts : \A u \in UIDs :
        (Eligible(a) /\ u <= mcount[a] /\ u > old[a] /\ Storable(a, u))
            ~> (DocId(a, u) \in DOMAIN store)

\* C20: notification failures are isolated per channel and from
\* persistence: after a failed Slack post the external webhook, if
\* configured, is still posted to; a failed webhook post comes after the
\* Slack post, if configured, was made; neither failure raises out of the
\* automation or the processing; and the document the call wrote is still
\* stored unchanged.
C20_NotificationFailuresIsolated ==
    \A t \in Tasks :
        LET a == Att(t) IN
        /\ a.slackFailed =>
              /\ task[t].pc \in { "webhook", "settled" }
              /\ a.webhook = IF env.webhookUrl THEN 1 ELSE 0
        /\ a.webhookFailed =>
              /\ task[t].pc = "settled"
              /\ a.slack = IF env.slackUrl THEN 1 ELSE 0
        /\ (a.slackFailed \/ a.webhookFailed) =>
              /\ a.outcome \in { "running", "returned" }
              /\ a.notified = 1
              /\ ~a.esFailed =>
                    /\ task[t].doc.id \in DOMAIN store
                    /\ store[task[t].doc.id] = task[t].doc

\* The Slack post failed, the webhook post was made and succeeded, the call
\* returned and its document is stored.
C20_Witness ==
    \E t \in Tasks :
        /\ task[t].pc = "settled"
        /\ Att(t).slackFailed
        /\ Att(t).webhook = 1
        /\ ~Att(t).webhookFailed
        /\ Att(t).outcome = "returned"
        /\ task[t].doc.id \in DOMAIN store

\* The account's sync has failed: its connect or its backfill was ended by
\* an exception, or its session has emitted 'error'.
SyncFailed(a) ==
    acctLog[a].connectFailed \/ acctLog[a].imapFailure \/ acctLog[a].errored

\* Main is connecting or backfilling account a.
SyncRunning(a) ==
    task[Main].acct = a /\ task[Main].pc \in SyncPcs \cup { "connect" }

\* C21: no automatic retry or reconnect: connect is attempted at most once
\* per account; once the connect or the backfill of an account has failed
\* or its session has emitted 'error', no step makes a new connect, starts
\* a backfill or installs a listener for that account.
C21_NoRetryNoReconnect ==
    [][ \A a \in Accounts :
          /\ acctLog'[a].connects <= 1
          /\ SyncFailed(a) =>
                /\ acctLog'[a].connects = acctLog[a].connects
                /\ registered'[a] = registered[a]
                /\ ~SyncRunning(a)'
                /\ SyncFailed(a)' ]_vars

\* The first account's backfill failed and startSync has returned: the
\* account was connected once and has no listener.
C21_Witness ==
    LET a == ACCOUNT_CONFIGS[1] IN
    /\ task[Main].pc = "done"
    /\ acctLog[a].imapFailure
    /\ ~acctLog[a].connectFailed
    /\ acctLog[a].connects = 1
    /\ ~registered[a]
    /\ a \in clients

\* The attempt record of a processAndIndexEmail call that has not started.
NewAttemptStages == { "none", "fetched" }

\* C22: within one processing attempt the stages run in the order Fetched,
\* Parsed, Classified, Indexed, Notified: the oracle is called only in the
\* step that follows a successful parse, the store write is requested only
\* once a category has been returned, the notification is made only after
\* a store write that succeeded, and an attempt that has failed a step
\* executes nothing more.
C22_StagesInOrder ==
    [][ \A t \in Tasks :
          LET a == task[t].att
              b == task'[t].att
          IN /\ b.oracleCalls > a.oracleCalls =>
                    a.stage = "fetched" /\ parseOk(b.kind)
             /\ b.esCalls > a.esCalls =>
                    /\ a.stage \in { "fetched", "parsed" }
                    /\ parseOk(b.kind)
                    /\ task'[t].cat \in VALID_CATEGORIES
             /\ b.notified > a.notified =>
                    /\ a.stage = "classified"
                    /\ b.esCalls = 1
                    /\ ~b.esFailed
             /\ (a.stage = "skipped" \/ a.esFailed) =>
                    b = a \/ b.stage \in NewAttemptStages ]_vars

\* The ids whose stored document differs between two stores.
Written(st, st2) ==
    { k \in DOMAIN st2 : k \notin DOMAIN st \/ st2[k] # st[k] }

\* C23: the pipeline never deletes documents: every step keeps all the ids
\* of the store (it adds one, overwrites one or leaves the store as it is),
\* and the only document a step writes is the one built by a
\* processAndIndexEmail call whose client.index settles in that step, under
\* the id of the message that call is processing.
C23_StoreOnlyGrows ==
    [][ /\ DOMAIN store \subseteq DOMAIN store'
        /\ \A k \in Written(store, store') :
              \E t \in Tasks :
                 /\ task[t].pc = "index"
                 /\ task'[t].pc # "index"
                 /\ k = DocId(task[t].acct, task[t].att.uid)
                 /\ store'[k] = task[t].doc
        /\ Cardinality(Written(store, store')) <= 1 ]_vars

\* A callback has written the document of its message while the store
\* holds the document of the other account as well.
C23_Witness ==
    \E t \in Handlers :
       /\ task[t].pc = "settled"
       /\ Att(t).esCalls = 1 /\ ~Att(t).esFailed
       /\ DocId(task[t].acct, Att(t).uid) \in DOMAIN store
       /\ Cardinality(DOMAIN store) = 2

\* client.connect() of the account has resolved.
Connected(a) ==
    /\ acctLog[a].attempted
    /\ ~acctLog[a].connectFailed
    /\ ~(task[Main].acct = a /\ task[Main].pc = "connect")

\* C24: the session map holds an entry for an account only if the connect
\* of that account succeeded, so the account count of the status endpoint
\* counts connected accounts only and its status is 'Initialized and
\* Syncing' only when some account is connected.
C24_SessionOnlyAfterConnect ==
    /\ \A a \in clients : Connected(a)
    /\ accountsConfigured(clients)
          = Cardinality({ a \in Accounts : Connected(a) })
    /\ imapStatus(clients) = "Initialized and Syncing"
          => \E a \in Accounts : Connected(a)

\* C25: classification applies the rule-based checks first and calls the
\* OpenAI oracle only when no rule matches: a processing attempt of a
\* message whose subject a rule matches makes no oracle call, and the
\* document built for it carries the rule's label.
C25_RulesBeforeOracle ==
    \A t \in Tasks :
       (Att(t).uid \in UIDs
          /\ ruleBasedLabel(MsgSubject(task[t].acct, Att(t).uid)) # NoCategory)
       => /\ Att(t).oracleCalls = 0
          /\ task[t].doc # NoDoc =>
                task[t].doc.ai_category
                   = ruleBasedLabel(MsgSubject(task[t].acct, Att(t).uid))

\* C26: one triggerInterestedAutomation call attempts each configured
\* channel exactly once, Slack first and the external webhook after the
\* Slack post has settled; a channel whose URL is not set is skipped
\* without an error and the other channel is still attempted; and every
\* message classified 'Interested' gets such a call.
C26_BothChannelsTriggered ==
    \A t \in Tasks :
        LET a == Att(t) IN
        /\ a.slack <= 1 /\ a.webhook <= 1 /\ a.notified <= 1
        /\ (a.slack = 1 \/ a.webhook = 1) => a.notified = 1
        /\ a.slack = 1 => env.slackUrl
        /\ a.webhook = 1 => env.webhookUrl /\ task[t].pc # "slack"
        /\ task[t].pc = "slack" => a.slack = 1
        /\ task[t].pc = "webhook" =>
              a.webhook = 1 /\ a.slack = (IF env.slackUrl THEN 1 ELSE 0)
        /\ (task[t].pc = "settled" /\ a.notified = 1) =>
              /\ a.slack = (IF env.slackUrl THEN 1 ELSE 0)
              /\ a.webhook = (IF env.webhookUrl THEN 1 ELSE 0)
              /\ a.outcome = "returned"
        /\ (task[t].pc = "settled" /\ a.esCalls = 1
              /\ task[t].cat = "Interested") => a.notified = 1

\* Both URLs are set and the call has returned after one post to each
\* channel, both successful.
C26_Witness ==
    \E t \in Tasks :
        /\ env.slackUrl /\ env.webhookUrl
        /\ task[t].pc = "settled"
        /\ Att(t).notified = 1
        /\ Att(t).slack = 1 /\ ~Att(t).slackFailed
        /\ Att(t).webhook = 1 /\ ~Att(t).webhookFailed
        /\ Att(t).outcome = "returned"

\* No account has been connected, backfilled or given a listener, and no
\* message has been processed.
NothingSynced ==
    /\ clients = {}
    /\ cfgIdx = 0
    /\ acctLog = [a \in Accounts |-> NewAcctLog]
    /\ registered = [a \in Accounts |-> FALSE]
    /\ lock = [a \in Accounts |-> NoTask]
    /\ \A t \in Tasks : task[t] = [IdleTask EXCEPT !.pc = task[t].pc]
    /\ \A t \in Handlers : task[t].pc = "idle"
    /\ DOMAIN store = {}

\* C27: mailbox sync is gated on the store's health at startup: when
\* esService.connect() of the app.listen callback returned false, startSync
\* is never called and no connect, backfill, live handler or message
\* processing ever happens; when it returned true, startSync has been
\* called exactly once; until it returns nothing has been synchronised.
C27_SyncGatedOnStoreHealth ==
    /\ server.esConnected = "no" =>
          /\ server.startSyncCalls = 0
          /\ task[Main].pc = "skipped"
          /\ NothingSynced
    /\ server.esConnected = "yes" =>
          /\ server.startSyncCalls = 1
          /\ task[Main].pc \notin { "idle", "skipped" }
    /\ server.esConnected = "pending" =>
          /\ server.startSyncCalls = 0
          /\ task[Main].pc = "idle"
          /\ NothingSynced

\* The store check failed at startup and mail has arrived on the server
\* since: nothing is synchronised.
C27_Witness ==
    /\ server.esConnected = "no"
    /\ task[Main].pc = "skipped"
    /\ \E a \in Accounts : mcount[a] = MaxUid /\ ~registered[a]
    /\ clients = {}

\* C28: side effects are not exactly-once: when a message whose document
\* is already stored as 'Interested' (an earlier attempt wrote it and
\* notified) is processed again and classified 'Interested' again, the
\* automation is invoked again, while the store keeps one document for
\* that message.
C28_RepeatedNotification ==
    [][ \A t \in Tasks :
          ( /\ task[t].pc = "index"
            /\ task'[t].pc # "index"
            /\ task[t].cat = "Interested"
            /\ task[t].doc.id \in DOMAIN store
            /\ store[task[t].doc.id].ai_category = "Interested" )
          => /\ task'[t].att.notified = 1
             /\ task'[t].pc \in { "slack", "webhook", "settled" }
             /\ Cardinality({ k \in DOMAIN store' :
                                 store'[k].id = task[t].doc.id }) = 1 ]_vars

\* A callback's attempt has notified about a message that is stored as
\* 'Interested'; its own write failed, so the stored document is the one
\* of an earlier attempt, which has notified as well.
C28_Witness ==
    \E t \in Handlers :
       /\ task[t].pc = "settled"
       /\ task[t].cat = "Interested"
       /\ Att(t).notified = 1 /\ Att(t).slack = 1
       /\ Att(t).esFailed
       /\ task[t].doc.id \in DOMAIN store
       /\ store[task[t].doc.id].ai_category = "Interested"
       /\ Cardinality(DOMAIN store) = 1

\* The addresses carried by the entries of every recipient group of a
\* parsed.to, in order.
RECURSIVE ExtractableFrom(_)
ExtractableFrom(groups) ==
    IF groups = << >> THEN << >>
    ELSE LET g == Head(groups)
             own == IF g.hasValue
                    THEN SelectSeq([ i \in 1..Len(g.value) |-> g.value[i].address ],
                                   Truthy)
                    ELSE << >>
         IN own \o ExtractableFrom(Tail(groups))

Extractable(to) ==
    CASE to.kind = "absent" -> << >>
      [] to.kind = "object" -> ExtractableFrom(<< to.object >>)
      [] to.kind = "array"  -> ExtractableFrom(to.items)

\* The 'to' a document of the message with this parsed.to must carry.
ExpectedTo(to) ==
    IF Extractable(to) = << >> THEN UNKNOWN_ADDRESS
    ELSE joinComma(Extractable(to))

\* C29: the 'to' field of every document built or stored is never empty:
\* it is the comma-joined list of the addresses extracted from all the
\* recipient groups of the parsed message, and the sentinel
\* 'unknown@example.com' when the message has no 'to' header or no address
\* can be extracted.
C29_ToNeverEmpty ==
    /\ \A t \in Tasks :
          task[t].doc # NoDoc =>
             /\ task[t].doc.to # ""
             /\ task[t].doc.to = ExpectedTo(mailTo[task[t].acct][Att(t).uid])
    /\ \A k \in DOMAIN store :
          /\ store[k].to # ""
          /\ \A a \in Accounts, u \in UIDs :
                k = DocId(a, u) => store[k].to = ExpectedTo(mailTo[a][u])

\* A document is stored with the sentinel for a message whose 'to' header
\* holds MaxGroups recipient groups, none of which yields an address.
C29_Witness ==
    \E a \in Accounts, u \in UIDs :
       /\ DocId(a, u) \in DOMAIN store
       /\ store[DocId(a, u)].to = UNKNOWN_ADDRESS
       /\ mailTo[a][u].kind = "array"
       /\ Len(mailTo[a][u].items) = MaxGroups
       /\ mailTo[a][u].items[1].hasValue
       /\ mailTo[a][u].items[1].value # << >>

\* C30: when the backfill of an account raises (the lock request, the
\* search or a fetch fails), the account task catches the error: from then
\* on the mailbox lock of the account is free, no task fetches or
\* processes a message of the account, its backfill is not completed and
\* its listener is never installed, while startSync goes on to the other
\* accounts, which are backfilled and listen unless an operation of their
\* own fails.
C30_BackfillFailureEndsAccount ==
    \A a \in Accounts :
       acctLog[a].imapFailure =>
          /\ lock[a] = NoTask
          /\ ~registered[a]
          /\ ~acctLog[a].backfillDone
          /\ \A t \in Tasks : task[t].acct # a
          /\ task[Main].pc # "raised"
          /\ \A b \in Accounts :
                (b # a /\ Eligible(b) /\ SyncEnded) =>
                   /\ acctLog[b].attempted
                   /\ (~acctLog[b].connectFailed /\ ~acctLog[b].imapFailure)
                         => (acctLog[b].backfillDone /\ registered[b])

\* The first account's backfill failed: none of the messages of its
\* mailbox is stored, its lock is free and it has no listener; the second
\* account has been backfilled, listens and a change notification of it is
\* being handled.
C30_Witness ==
    LET a == ACCOUNT_CONFIGS[1]
        b == ACCOUNT_CONFIGS[2]
    IN /\ acctLog[a].imapFailure
       /\ mcount[a] = MaxUid
       /\ \A u \in UIDs : DocId(a, u) \notin DOMAIN store
       /\ lock[a] = NoTask
       /\ ~registered[a]
       /\ acctLog[b].backfillDone
       /\ registered[b]
       /\ \E t \in Handlers : task[t].acct = b /\ task[t].pc = "settled"

\* C31: a change notification emitted before the account's listener is
\* installed starts no callback and is not replayed: a callback starts
\* only in a step that finds the listener already installed, so neither a
\* dropped notification nor the installation itself starts one, and a
\* dropped notification stays dropped.  The backfill works on the UIDs its
\* search returned: a message that arrives later is never among them, so
\* its document is written only by a callback, for the last UID of that
\* callback's own search.
C31_EarlyNotificationsDropped ==
    [][ /\ \A t \in Handlers :
              (task[t].pc = "idle" /\ task'[t].pc # "idle") =>
                  /\ registered[task'[t].acct]
                  /\ task'[t].pc = "lock"
        /\ \A a \in Accounts :
              /\ acctLog[a].missed => acctLog'[a].missed
              /\ (BackfillRunning(a) /\ BackfillRunning(a)'
                    /\ task[Main].pc \in LoopPcs) =>
                    /\ task'[Main].uids = task[Main].uids
                    /\ \A i \in 1..Len(task[Main].uids) :
                          task[Main].uids[i] <= mcount[a]
        /\ \A k \in Written(store, store') :
              \E t \in Tasks :
                 /\ task[t].pc = "index"
                 /\ k = DocId(task[t].acct, task[t].uids[task[t].i])
                 /\ t \in Handlers => task[t].i = Len(task[t].uids) ]_vars

\* A notification of the first account was dropped during its connect or
\* backfill; the backfill has stored the first message, the listener is
\* installed, the latest message of the mailbox is not among the stored
\* ones and no callback is running.
C31_Witness ==
    LET a == ACCOUNT_CONFIGS[1] IN
    /\ acctLog[a].missed
    /\ acctLog[a].backfillDone
    /\ registered[a]
    /\ task[Main].pc = "done"
    /\ \A t \in Handlers : task[t].pc = "idle"
    /\ mcount[a] = MaxUid
    /\ DocId(a, 1) \in DOMAIN store
    /\ DocId(a, MaxUid) \notin DOMAIN store

\* The stages of an 'exists' callback in which an IMAP request is pending.
RequestPcs == { "lock", "search", "fetch" }

\* C32: a failure inside one 'exists' callback (its lock request, search
\* or fetch rejecting) is caught inside that callback: the step that ends
\* a callback from one of these stages leaves the startSync task, the
\* other callbacks, the listeners and the store as they were and frees the
\* lock if the callback held it; the callback has written nothing; and an
\* account whose callback has caught a failure still has its listener, so
\* that later change notifications start callbacks again.
C32_CallbackFailureContained ==
    [][ /\ \A t \in Handlers :
              (task[t].pc \in RequestPcs /\ task'[t].pc = "idle") =>
                  /\ task[t].att = NoAttempt
                  /\ task'[t] = IdleTask
                  /\ \A u \in Tasks \ {t} : task'[u] = task[u]
                  /\ registered' = registered
                  /\ store' = store
                  /\ clients' = clients /\ cfgIdx' = cfgIdx
                  /\ \A a \in Accounts :
                        /\ lock'[a] # t
                        /\ lock[a] # t => lock'[a] = lock[a]
        /\ \A a \in Accounts :
              acctLog'[a].caught =>
                  /\ registered'[a]
                  /\ acctLog'[a].backfillDone
                  /\ task'[Main].pc = "done" ]_vars

\* A callback of the first account has caught a failure, and a callback
\* started by a later notification has processed a message and written its
\* document.
C32_Witness ==
    LET a == ACCOUNT_CONFIGS[1] IN
    /\ acctLog[a].caught
    /\ registered[a]
    /\ \E t \in Handlers :
          /\ task[t].acct = a
          /\ task[t].pc = "settled"
          /\ Att(t).esCalls = 1 /\ ~Att(t).esFailed
          /\ task[t].doc.id \in DOMAIN store

\* The stored documents a request's filters select.
Selected(r) ==
    { k \in DOMAIN store :
         /\ (r.accountId # "" => store[k].account_id = r.accountId)
         /\ (r.folder # "" => store[k].folder = r.folder) }

\* C33: searchEmails returns the page of the stored documents that match
\* every supplied filter: only such documents, each once, by date
\* descending, those after the first (page-1)*pageSize matches and at most
\* pageSize of them; when the search fails the answer is an empty list
\* with total 0.
C33_SearchReturnsMatchingPage ==
    apiReply # NoReply =>
       LET r     == apiReply
           sel   == Selected(r)
           from  == (r.page - 1) * r.pageSize
           left  == IF Cardinality(sel) > from THEN Cardinality(sel) - from
                    ELSE 0
           n     == Len(r.emails)
       IN IF r.failed
          THEN r.emails = << >> /\ r.total = 0
          ELSE /\ n = (IF left < r.pageSize THEN left ELSE r.pageSize)
               /\ \A i \in 1..n :
                     /\ r.emails[i].id \in sel
                     /\ r.emails[i] = store[r.emails[i].id]
                     /\ Cardinality({ k \in sel :
                           store[k].date > r.emails[i].date }) < from + i
                     /\ Cardinality({ k \in sel :
                           store[k].date >= r.emails[i].date }) >= from + i
               /\ \A i, j \in 1..n :
                     /\ i # j => r.emails[i].id # r.emails[j].id
                     /\ i < j => r.emails[i].date >= r.emails[j].date

=============================================================================
